---- MODULE Spec2Model ----
(***************************************************************************)
(* Model of trading_script.py: the looped bracket-order bot.               *)
(*                                                                         *)
(* Units.  Prices, spreads and the offset are integers counting 0.05 of    *)
(* the quote currency (2000 = 100.00); the venue quotes on a 0.10 grid, so *)
(* (best_ask + best_bid) / 2 is an integer.  Sizes are integers.  The      *)
(* order-book imbalance is the exact fraction <<num, den>>.  Natural logs  *)
(* are fixed-point with four decimals (Ln(p) = round(10^4 * ln p)), and a  *)
(* volatility v is compared as v^2, so no square root is taken.            *)
(***************************************************************************)
EXTENDS Integers, Sequences, FiniteSets

(***************************************************************************)
(* Bounds of the model (not program constants).                            *)
(***************************************************************************)
\* cycles explored when the venue and the API may do anything
WildCycles == 3
\* GRVT_MAX_ATTEMPTS of those runs
WildAttempts == 2
\* cycles explored when the venue is quiet and every call succeeds
CalmCycles == 52
\* how often the quiet venue's book changes
MaxMoves == 1
\* longest list fetch_open_orders returns
MaxOpenOrders == 2
\* GRVT_MAX_ATTEMPTS of the run whose environment fails only a few times
LiveAttempts == 2
\* cycles of that run in which the environment may keep the bot from placing
LiveFaults == 2
\* most levels per side in the books generated for the imbalance (the code
\* asks the venue for 10)
MaxLevels == 6

(***************************************************************************)
(* Program constants and configuration (main, lines 133-145).              *)
(***************************************************************************)
SYMBOL == "BTC_USDT_Perp"
\* 0.001, counted in thousandths
QUANTITY == 1
\* GRVT_MIN_SPREAD 0.5
MIN_SPREAD == 10
\* GRVT_MAX_SPREAD 50.0
MAX_SPREAD == 1000
\* GRVT_OBI_TOLERANCE 0.2 as the fraction 1/5
OBI_TOLERANCE == <<1, 5>>
\* GRVT_MAX_VOLATILITY 0.002, in the fixed-point unit of Ln
MAX_VOLATILITY == 20
\* GRVT_WAIT_SECONDS
WAIT_SECONDS == 60
\* time.sleep(5) after a filter skip, time.sleep(10) in the except handler
SKIP_SLEEP == 5
ERROR_SLEEP == 10
\* GRVT_OFFSET: the default 100.0 and the small offset 0.3
OFFSET_DEFAULT == 2000
OFFSET_SMALL == 6
\* a negative GRVT_OFFSET (the code accepts any float)
OFFSET_NEGATIVE == 0 - OFFSET_DEFAULT
\* deque(maxlen=50)
WINDOW_MAXLEN == 50
\* len(price_window) >= 10
MIN_SAMPLES == 10
\* compute_orderbook_imbalance(bids, asks, depth=5)
OBI_DEPTH == 5

Min(a, b) == IF a < b THEN a ELSE b

(***************************************************************************)
(* Order books the venue can show.                                         *)
(***************************************************************************)
Level(p, s) == [price |-> p, size |-> s]

\* orderbook.get(side) is None when the key is absent: has* is FALSE then.
Book(b, a) == [bids |-> b, asks |-> a, hasBids |-> TRUE, hasAsks |-> TRUE]

\* bid 100.00, ask 101.00, one unit each side
BookCalm == Book(<<Level(2000, 1)>>, <<Level(2020, 1)>>)
\* the same book one percent higher
BookUp == Book(<<Level(2020, 1)>>, <<Level(2040, 1)>>)
\* spread exactly MIN_SPREAD, imbalance exactly 0.3
BookTight == Book(<<Level(2000, 3)>>, <<Level(2010, 7)>>)
\* spread exactly MAX_SPREAD, imbalance exactly 0.7
BookBroad == Book(<<Level(1500, 7)>>, <<Level(2500, 3)>>)
\* spread below MIN_SPREAD, and imbalanced as well
BookNarrow == Book(<<Level(2000, 1)>>, <<Level(2008, 9)>>)
\* spread above MAX_SPREAD, balanced
BookWide == Book(<<Level(1500, 1)>>, <<Level(2502, 1)>>)
\* spread in range, imbalance 0.1
BookAskHeavy == Book(<<Level(2000, 1)>>, <<Level(2020, 9)>>)
\* spread in range, imbalance 0.9
BookBidHeavy == Book(<<Level(2000, 9)>>, <<Level(2020, 1)>>)
\* balanced over the top five levels, bid-heavy at the sixth
BookDeep ==
    Book(<<Level(2000, 1), Level(1998, 1), Level(1996, 1), Level(1994, 1),
           Level(1992, 1), Level(1990, 20)>>,
         <<Level(2020, 1), Level(2022, 1), Level(2024, 1), Level(2026, 1),
           Level(2028, 1)>>)
\* no size on either side
BookZero == Book(<<Level(2000, 0)>>, <<Level(2020, 0)>>)
\* best ask exactly at the default offset
BookCheap == Book(<<Level(1980, 1)>>, <<Level(2000, 1)>>)
\* an empty ask list
BookNoAsks == Book(<<Level(2000, 1)>>, <<>>)
\* no "bids" key at all
BookNoBids ==
    [bids |-> <<>>, asks |-> <<Level(2020, 1)>>, hasBids |-> FALSE, hasAsks |-> TRUE]

NoBook == [bids |-> <<>>, asks |-> <<>>, hasBids |-> FALSE, hasAsks |-> FALSE]

AllBooks ==
    {BookCalm, BookUp, BookTight, BookBroad, BookNarrow, BookWide, BookAskHeavy,
     BookBidHeavy, BookDeep, BookZero, BookCheap, BookNoAsks, BookNoBids}

QuietBooks == {BookCalm, BookUp}

(***************************************************************************)
(* Runs.  A run fixes the configuration read once at startup and what the  *)
(* environment may do.                                                     *)
(***************************************************************************)
\* maxFaults is the number of cycles in which the environment may do anything
\* else than let the bot place both orders (raise, report open orders, show a
\* book outside `sound`); the books named by `sound` pass every filter and price check.
WildRun(off) ==
    [OFFSET |-> off, MAX_ATTEMPTS |-> WildAttempts, maxCycles |-> WildCycles,
     maxMoves |-> WildCycles, maxFaults |-> WildCycles, quiet |-> FALSE,
     books |-> "all", sound |-> "all"]

CalmRun ==
    [OFFSET |-> OFFSET_SMALL, MAX_ATTEMPTS |-> CalmCycles, maxCycles |-> CalmCycles,
     maxMoves |-> MaxMoves, maxFaults |-> 0, quiet |-> TRUE,
     books |-> "quiet", sound |-> "quiet"]

\* The environment misbehaves in at most LiveFaults cycles; no other limit
\* stops the loop (maxCycles and maxMoves are never reached).
LiveRun ==
    [OFFSET |-> OFFSET_SMALL, MAX_ATTEMPTS |-> LiveAttempts,
     maxCycles |-> LiveAttempts + LiveFaults, maxMoves |-> LiveAttempts + LiveFaults,
     maxFaults |-> LiveFaults, quiet |-> FALSE,
     books |-> "live", sound |-> "calm"]

Runs == {WildRun(OFFSET_SMALL), WildRun(OFFSET_DEFAULT), WildRun(OFFSET_NEGATIVE), CalmRun}

\* One side of a generated book: 1..MaxLevels levels one tick apart, starting
\* at price `best` and moving by `step`, every size drawn from `sizes`.
Sides(best, step, sizes) ==
    UNION {{[i \in 1..n |-> Level(best + (i - 1) * step, f[i])] : f \in [1..n -> sizes]} :
           n \in 1..MaxLevels}

\* bid 100.00, ask 101.00 at the top; levels with no size and one step of size
ObiBooks ==
    {Book(b, a) : b \in Sides(2000, -1, {0, 1}), a \in Sides(2020, 1, {0, 3})}

\* the books a run names
Books(name) ==
    CASE name = "all" -> AllBooks
      [] name = "quiet" -> QuietBooks
      [] name = "calm" -> {BookCalm}
      [] name = "live" -> {BookCalm, BookNarrow, BookNoAsks}
      [] name = "obi" -> ObiBooks

\* a single cycle on one generated book
ObiRun ==
    [OFFSET |-> OFFSET_SMALL, MAX_ATTEMPTS |-> 1, maxCycles |-> 1, maxMoves |-> 0,
     maxFaults |-> 1, quiet |-> FALSE, books |-> "obi", sound |-> "obi"]

(***************************************************************************)
(* Pure functions.                                                         *)
(***************************************************************************)
RECURSIVE SumSizes(_)
SumSizes(levels) ==
    IF levels = <<>> THEN 0 ELSE Head(levels).size + SumSizes(Tail(levels))

\* levels[:depth]
\* Faulty variant of Top: the whole side is summed, whatever the depth.
Top_WholeSide(levels, depth) == levels

Top(levels, depth) == SubSeq(levels, 1, Min(depth, Len(levels)))

\* The imbalance as the fraction <<num, den>>; <<1, 2>> is the literal 0.5.
compute_orderbook_imbalance(bids, asks, depth) ==
    LET bid_vol == SumSizes(Top(bids, depth))
        ask_vol == SumSizes(Top(asks, depth))
    IN  IF bid_vol + ask_vol = 0 THEN <<1, 2>> ELSE <<bid_vol, bid_vol + ask_vol>>

\* Faulty variant of SpreadInRange: the bounds are exclusive.
SpreadInRange_Exclusive(s, lo, hi) == lo < s /\ s < hi

\* min_spread <= spread <= max_spread
SpreadInRange(s, lo, hi) == lo <= s /\ s <= hi

\* obi < 0.5 - obi_tolerance or obi > 0.5 + obi_tolerance, cross-multiplied
ObiOutOfRange(o, tol) ==
    \/ 2 * tol[2] * o[1] < o[2] * (tol[2] - 2 * tol[1])
    \/ 2 * tol[2] * o[1] > o[2] * (tol[2] + 2 * tol[1])

\* np.log on the mid-prices that occur
Ln(p) ==
    CASE p = 1990 -> 75959
      [] p = 2000 -> 76009
      [] p = 2005 -> 76034
      [] p = 2010 -> 76059
      [] p = 2030 -> 76158

\* np.diff(np.log(price_window))
LogReturns(w) == [i \in 1..(Len(w) - 1) |-> Ln(w[i + 1]) - Ln(w[i])]

RECURSIVE SumSeq(_)
SumSeq(s) == IF s = <<>> THEN 0 ELSE Head(s) + SumSeq(Tail(s))

Squares(s) == [i \in 1..Len(s) |-> s[i] * s[i]]

\* np.std(x)^2 = VarNum(x) / VarDen(x): the population variance (ddof = 0)
VarNum(x) == Len(x) * SumSeq(Squares(x)) - SumSeq(x) * SumSeq(x)
\* Faulty variant of VarDen: the divisor of the sample variance (ddof = 1).
VarDen_Sample(x) == Len(x) * (Len(x) - 1)

VarDen(x) == Len(x) * Len(x)

\* np.std(log_returns) > max_volatility
VolAbove(w, maxv) ==
    LET r == LogReturns(w) IN VarNum(r) > maxv * maxv * VarDen(r)

\* Faulty variant of VolGateActive: the filter is active from the first sample.
VolGateActive_AnySample(w) == Len(w) >= 1

\* len(price_window) >= 10
VolGateActive(w) == Len(w) >= MIN_SAMPLES

\* Faulty variant of DequeAppend: a full window drops the new price.
DequeAppend_KeepsOldest(w, x, maxlen) ==
    IF Len(w) >= maxlen THEN w ELSE Append(w, x)

\* deque(maxlen).append(x)
DequeAppend(w, x, maxlen) ==
    IF Len(w) >= maxlen THEN Append(Tail(w), x) ELSE Append(w, x)

(***************************************************************************)
(* State.                                                                  *)
(***************************************************************************)
VARIABLES
    run,           \* the configuration and the environment's limits of this run
    market,        \* the book the venue currently shows
    moves,         \* how often it has changed
    nBuy, nSell,   \* orders the venue has accepted, per side
    naked,         \* cycles whose buy order was accepted and whose sell order failed
    pc,            \* position of main
    attempt,       \* main: attempt
    cycles,        \* iterations of the while loop started so far
    price_window,  \* module-level deque
    open_orders,   \* main: len(open_orders) of this cycle, -1 before the call
    loc,           \* locals of place_bracket_limit_orders in this cycle
    results,       \* main: results; <<>> is None
    exc,           \* exception raised in this cycle, "none" if none
    skipped,       \* filter that returned None in this cycle, "none" if none
    gates,         \* filters evaluated in this cycle, in order
    calls,         \* API calls issued in this cycle, in order
    slept,         \* durations slept in this cycle, in order
    attempt0,      \* attempt when this cycle started
    window0        \* price_window when this cycle started

vars ==
    <<run, market, moves, nBuy, nSell, naked, pc, attempt, cycles, price_window,
      open_orders, loc, results, exc, skipped, gates, calls, slept, attempt0, window0>>

NoLoc ==
    [orderbook |-> NoBook, best_ask |-> 0, best_bid |-> 0, spread |-> 0, mid |-> 0,
     obi |-> <<0, 0>>, buy_price |-> 0, sell_price |-> 0, buy_id |-> 0, sell_id |-> 0]

Call(name, side, price, ok) ==
    [api |-> name, symbol |-> SYMBOL, side |-> side, amount |-> QUANTITY,
     price |-> price, ok |-> ok]

\* main before the first test of the loop condition, for a run out of rs
Start(rs) ==
    /\ run \in rs
    /\ market \in Books(run.books)
    /\ moves = 0
    /\ nBuy = 0
    /\ nSell = 0
    /\ naked = 0
    /\ pc = "loop"
    /\ attempt = 0
    /\ cycles = 0
    /\ price_window = <<>>
    /\ open_orders = -1
    /\ loc = NoLoc
    /\ results = <<>>
    /\ exc = "none"
    /\ skipped = "none"
    /\ gates = <<>>
    /\ calls = <<>>
    /\ slept = <<>>
    /\ attempt0 = 0
    /\ window0 = <<>>

Init == Start(Runs)

\* The environment may still keep this cycle from placing: earlier cycles that
\* consumed no attempt are counted against run.maxFaults.
MayFail == ~run.quiet /\ cycles - 1 - attempt0 < run.maxFaults

(***************************************************************************)
(* main: the while loop (lines 147-175).                                   *)
(***************************************************************************)
\* while attempt < MAX_ATTEMPTS: the body starts (a new cycle)
main_LoopEnter ==
    /\ pc = "loop"
    /\ attempt < run.MAX_ATTEMPTS
    /\ cycles < run.maxCycles
    /\ pc' = "poll"
    /\ cycles' = cycles + 1
    /\ open_orders' = -1
    /\ loc' = NoLoc
    /\ results' = <<>>
    /\ exc' = "none"
    /\ skipped' = "none"
    /\ gates' = <<>>
    /\ calls' = <<>>
    /\ slept' = <<>>
    /\ attempt0' = attempt
    /\ window0' = price_window
    /\ UNCHANGED <<naked, run, market, moves, nBuy, nSell, attempt, price_window>>

\* Faulty variant of main_LoopExit: the loop is also left after an error.
main_LoopExit_OnError ==
    /\ pc = "loop"
    /\ ~(attempt < run.MAX_ATTEMPTS) \/ exc # "none"
    /\ pc' = "done"
    /\ UNCHANGED <<naked, gates, run, market, moves, nBuy, nSell, attempt, cycles, price_window,
                   open_orders, loc, results, exc, skipped, calls, slept, attempt0,
                   window0>>

\* while attempt < MAX_ATTEMPTS: the condition is false, main returns
main_LoopExit ==
    /\ pc = "loop"
    /\ ~(attempt < run.MAX_ATTEMPTS)
    /\ pc' = "done"
    /\ UNCHANGED <<naked, gates, run, market, moves, nBuy, nSell, attempt, cycles, price_window,
                   open_orders, loc, results, exc, skipped, calls, slept, attempt0,
                   window0>>

\* get_open_orders raises: except Exception (lines 173-175)
get_open_orders_Raises ==
    /\ pc = "poll"
    /\ MayFail
    /\ calls' = Append(calls, Call("fetch_open_orders", "", 0, FALSE))
    /\ exc' = "fetch_open_orders"
    /\ pc' = "except"
    /\ UNCHANGED <<naked, gates, run, market, moves, nBuy, nSell, attempt, cycles, price_window,
                   open_orders, loc, results, skipped, slept, attempt0, window0>>

\* Faulty variant of main_OpenOrdersSkip: the "continue" is missing, so the
\* cycle goes on to place_bracket_limit_orders after the sleep.
main_OpenOrdersSkip_NoContinue ==
    /\ pc = "poll"
    /\ MayFail
    /\ \E n \in 1..MaxOpenOrders : open_orders' = n
    /\ calls' = Append(calls, Call("fetch_open_orders", "", 0, TRUE))
    /\ slept' = Append(slept, WAIT_SECONDS)
    /\ pc' = "fetch"
    /\ UNCHANGED <<naked, gates, run, market, moves, nBuy, nSell, attempt, cycles, price_window,
                   loc, results, exc, skipped, attempt0, window0>>

\* get_open_orders returns a non-empty list: sleep(WAIT_SECONDS); continue
main_OpenOrdersSkip ==
    /\ pc = "poll"
    /\ MayFail
    /\ \E n \in 1..MaxOpenOrders : open_orders' = n
    /\ calls' = Append(calls, Call("fetch_open_orders", "", 0, TRUE))
    /\ slept' = Append(slept, WAIT_SECONDS)
    /\ pc' = "loop"
    /\ UNCHANGED <<naked, gates, run, market, moves, nBuy, nSell, attempt, cycles, price_window,
                   loc, results, exc, skipped, attempt0, window0>>

\* get_open_orders returns []: main calls place_bracket_limit_orders
main_NoOpenOrders ==
    /\ pc = "poll"
    /\ open_orders' = 0
    /\ calls' = Append(calls, Call("fetch_open_orders", "", 0, TRUE))
    /\ pc' = "fetch"
    /\ UNCHANGED <<naked, gates, run, market, moves, nBuy, nSell, attempt, cycles, price_window,
                   loc, results, exc, skipped, slept, attempt0, window0>>

\* Faulty variant of main_Except: the handler ends the loop.
main_Except_Terminates ==
    /\ pc = "except"
    /\ slept' = Append(slept, ERROR_SLEEP)
    /\ pc' = "done"
    /\ UNCHANGED <<naked, gates, run, market, moves, nBuy, nSell, attempt, cycles, price_window,
                   open_orders, loc, results, exc, skipped, calls, attempt0, window0>>

\* Faulty variant of main_Except: the handler takes the price of the failed
\* cycle out of the window again.
main_Except_RollsBack ==
    /\ pc = "except"
    /\ slept' = Append(slept, ERROR_SLEEP)
    /\ price_window' = window0
    /\ pc' = "loop"
    /\ UNCHANGED <<naked, gates, run, market, moves, nBuy, nSell, attempt, cycles,
                   open_orders, loc, results, exc, skipped, calls, attempt0, window0>>

\* Faulty variant of main_Except: a cycle that ended in the handler counts as
\* an attempt.
main_Except_ConsumesAttempt ==
    /\ pc = "except"
    /\ slept' = Append(slept, ERROR_SLEEP)
    /\ attempt' = attempt + 1
    /\ pc' = "loop"
    /\ UNCHANGED <<naked, gates, run, market, moves, nBuy, nSell, cycles, price_window,
                   open_orders, loc, results, exc, skipped, calls, attempt0, window0>>

\* except Exception as e: sleep(10)
main_Except ==
    /\ pc = "except"
    /\ slept' = Append(slept, ERROR_SLEEP)
    /\ pc' = "loop"
    /\ UNCHANGED <<naked, gates, run, market, moves, nBuy, nSell, attempt, cycles, price_window,
                   open_orders, loc, results, exc, skipped, calls, attempt0, window0>>

\* Faulty variant of main_Placed: after a placement the loop goes on without
\* sleeping.
main_Placed_NoSleep ==
    /\ pc = "placed"
    /\ results # <<>>
    /\ attempt' = attempt + 1
    /\ pc' = "loop"
    /\ UNCHANGED <<naked, gates, run, market, moves, nBuy, nSell, cycles, price_window, open_orders,
                   loc, results, exc, skipped, calls, attempt0, window0, slept>>

\* Faulty variant of main_Placed: the placement is not counted.
main_Placed_KeepsAttempt ==
    /\ pc = "placed"
    /\ results # <<>>
    /\ slept' = Append(slept, WAIT_SECONDS)
    /\ pc' = "loop"
    /\ UNCHANGED <<naked, gates, run, market, moves, nBuy, nSell, cycles, price_window, open_orders,
                   loc, results, exc, skipped, calls, attempt0, window0, attempt>>

\* if results: attempt += 1; sleep(WAIT_SECONDS)
main_Placed ==
    /\ pc = "placed"
    /\ results # <<>>
    /\ attempt' = attempt + 1
    /\ slept' = Append(slept, WAIT_SECONDS)
    /\ pc' = "loop"
    /\ UNCHANGED <<naked, gates, run, market, moves, nBuy, nSell, cycles, price_window, open_orders,
                   loc, results, exc, skipped, calls, attempt0, window0>>

\* Faulty variant of main_Skipped: a filter skip consumes an attempt.
main_Skipped_ConsumesAttempt ==
    /\ pc = "skipped"
    /\ results = <<>>
    /\ attempt' = attempt + 1
    /\ slept' = Append(slept, SKIP_SLEEP)
    /\ pc' = "loop"
    /\ UNCHANGED <<naked, gates, run, market, moves, nBuy, nSell, cycles, price_window,
                   open_orders, loc, results, exc, skipped, calls, attempt0, window0>>

\* else: sleep(5)
main_Skipped ==
    /\ pc = "skipped"
    /\ results = <<>>
    /\ slept' = Append(slept, SKIP_SLEEP)
    /\ pc' = "loop"
    /\ UNCHANGED <<naked, gates, run, market, moves, nBuy, nSell, attempt, cycles, price_window,
                   open_orders, loc, results, exc, skipped, calls, attempt0, window0>>

(***************************************************************************)
(* place_bracket_limit_orders (lines 43-110).                              *)
(***************************************************************************)
\* api.fetch_order_book raises
fetch_order_book_Raises ==
    /\ pc = "fetch"
    /\ MayFail
    /\ calls' = Append(calls, Call("fetch_order_book", "", 0, FALSE))
    /\ exc' = "fetch_order_book"
    /\ pc' = "except"
    /\ UNCHANGED <<naked, gates, run, market, moves, nBuy, nSell, attempt, cycles, price_window,
                   open_orders, loc, results, skipped, slept, attempt0, window0>>

\* Faulty variant of place_FetchOrderBook: an empty or missing side makes the
\* function return None, as a filter does, instead of raising.
place_FetchOrderBook_ReturnsNone ==
    /\ pc = "fetch"
    /\ \E b \in (IF moves < run.maxMoves THEN Books(run.books) ELSE {market}) :
         /\ MayFail \/ b \in Books(run.sound)
         /\ market' = b
         /\ moves' = IF b = market THEN moves ELSE moves + 1
         /\ IF ~b.hasAsks \/ b.asks = <<>> \/ ~b.hasBids \/ b.bids = <<>>
            THEN /\ loc' = [loc EXCEPT !.orderbook = b]
                 /\ skipped' = "book"
                 /\ pc' = "skipped"
            ELSE /\ loc' = [loc EXCEPT !.orderbook = b,
                                       !.best_ask = b.asks[1].price,
                                       !.best_bid = b.bids[1].price,
                                       !.spread = b.asks[1].price - b.bids[1].price,
                                       !.mid = (b.asks[1].price + b.bids[1].price) \div 2]
                 /\ skipped' = skipped
                 /\ pc' = "spread"
    /\ calls' = Append(calls, Call("fetch_order_book", "", 0, TRUE))
    /\ UNCHANGED <<naked, gates, run, nBuy, nSell, attempt, cycles, price_window, open_orders,
                   results, exc, slept, attempt0, window0>>

\* lines 53-64: the book is fetched; an empty or missing side raises
\* RuntimeError, otherwise best_ask, best_bid, spread and mid are computed
place_FetchOrderBook ==
    /\ pc = "fetch"
    /\ \E b \in (IF moves < run.maxMoves THEN Books(run.books) ELSE {market}) :
         /\ MayFail \/ b \in Books(run.sound)
         /\ market' = b
         /\ moves' = IF b = market THEN moves ELSE moves + 1
         /\ IF ~b.hasAsks \/ b.asks = <<>> \/ ~b.hasBids \/ b.bids = <<>>
            THEN /\ loc' = [loc EXCEPT !.orderbook = b]
                 /\ exc' = "RuntimeError"
                 /\ pc' = "except"
            ELSE /\ loc' = [loc EXCEPT !.orderbook = b,
                                       !.best_ask = b.asks[1].price,
                                       !.best_bid = b.bids[1].price,
                                       !.spread = b.asks[1].price - b.bids[1].price,
                                       !.mid = (b.asks[1].price + b.bids[1].price) \div 2]
                 /\ exc' = exc
                 /\ pc' = "spread"
    /\ calls' = Append(calls, Call("fetch_order_book", "", 0, TRUE))
    /\ UNCHANGED <<naked, gates, run, nBuy, nSell, attempt, cycles, price_window, open_orders,
                   results, skipped, slept, attempt0, window0>>

\* lines 68-71: the spread filter
place_SpreadFilter ==
    /\ pc = "spread"
    /\ IF ~SpreadInRange(loc.spread, MIN_SPREAD, MAX_SPREAD)
       THEN skipped' = "spread" /\ pc' = "skipped"
       ELSE skipped' = skipped /\ pc' = "obi"
    /\ gates' = Append(gates, "spread")
    /\ UNCHANGED <<naked, run, market, moves, nBuy, nSell, attempt, cycles, price_window,
                   open_orders, loc, results, exc, calls, slept, attempt0, window0>>

\* lines 73-77: the OBI filter
place_ObiFilter ==
    /\ pc = "obi"
    /\ LET obi == compute_orderbook_imbalance(loc.orderbook.bids, loc.orderbook.asks,
                                              OBI_DEPTH)
       IN  /\ loc' = [loc EXCEPT !.obi = obi]
           /\ IF ObiOutOfRange(obi, OBI_TOLERANCE)
              THEN skipped' = "obi" /\ pc' = "skipped"
              ELSE skipped' = skipped /\ pc' = "vol"
    /\ gates' = Append(gates, "obi")
    /\ UNCHANGED <<naked, run, market, moves, nBuy, nSell, attempt, cycles, price_window,
                   open_orders, results, exc, calls, slept, attempt0, window0>>

\* lines 79-86: the mid-price is appended, then the volatility filter
place_VolatilityFilter ==
    /\ pc = "vol"
    /\ price_window' = DequeAppend(price_window, loc.mid, WINDOW_MAXLEN)
    /\ IF VolGateActive(price_window') /\ VolAbove(price_window', MAX_VOLATILITY)
       THEN skipped' = "vol" /\ pc' = "skipped"
       ELSE skipped' = skipped /\ pc' = "price"
    /\ gates' = Append(gates, "vol")
    /\ UNCHANGED <<naked, run, market, moves, nBuy, nSell, attempt, cycles, open_orders, loc,
                   results, exc, calls, slept, attempt0, window0>>

\* Faulty variant of place_Prices: only a negative price is refused, a price of
\* zero goes through to create_order.
place_Prices_AllowsZero ==
    /\ pc = "price"
    /\ LET buy_price == loc.best_ask - run.OFFSET
           sell_price == loc.best_bid + run.OFFSET
       IN  /\ loc' = [loc EXCEPT !.buy_price = buy_price, !.sell_price = sell_price]
           /\ IF buy_price < 0 \/ sell_price < 0
              THEN exc' = "ValueError" /\ pc' = "except"
              ELSE exc' = exc /\ pc' = "buy"
    /\ UNCHANGED <<naked, gates, run, market, moves, nBuy, nSell, attempt, cycles, price_window,
                   open_orders, results, skipped, calls, slept, attempt0, window0>>

\* lines 88-93: the two prices; a non-positive one raises ValueError
place_Prices ==
    /\ pc = "price"
    /\ LET buy_price == loc.best_ask - run.OFFSET
           sell_price == loc.best_bid + run.OFFSET
       IN  /\ loc' = [loc EXCEPT !.buy_price = buy_price, !.sell_price = sell_price]
           /\ IF buy_price <= 0 \/ sell_price <= 0
              THEN exc' = "ValueError" /\ pc' = "except"
              ELSE exc' = exc /\ pc' = "buy"
    /\ UNCHANGED <<naked, gates, run, market, moves, nBuy, nSell, attempt, cycles, price_window,
                   open_orders, results, skipped, calls, slept, attempt0, window0>>

\* lines 95-99: the buy order is accepted
place_BuyAccepted ==
    /\ pc = "buy"
    /\ calls' = Append(calls, Call("create_order", "buy", loc.buy_price, TRUE))
    /\ nBuy' = nBuy + 1
    /\ loc' = [loc EXCEPT !.buy_id = nBuy + nSell + 1]
    /\ pc' = "sell"
    /\ UNCHANGED <<naked, gates, run, market, moves, nSell, attempt, cycles, price_window,
                   open_orders, results, exc, skipped, slept, attempt0, window0>>

\* Faulty variant of place_BuyRaises: the failure of the buy order is swallowed
\* and the sell order is submitted all the same.
place_BuyRaises_Swallowed ==
    /\ pc = "buy"
    /\ MayFail
    /\ calls' = Append(calls, Call("create_order", "buy", loc.buy_price, FALSE))
    /\ pc' = "sell"
    /\ UNCHANGED <<naked, gates, run, market, moves, nBuy, nSell, attempt, cycles, price_window,
                   open_orders, loc, results, exc, skipped, slept, attempt0, window0>>

\* lines 95-99: create_order raises for the buy order
place_BuyRaises ==
    /\ pc = "buy"
    /\ MayFail
    /\ calls' = Append(calls, Call("create_order", "buy", loc.buy_price, FALSE))
    /\ exc' = "create_order buy"
    /\ pc' = "except"
    /\ UNCHANGED <<naked, gates, run, market, moves, nBuy, nSell, attempt, cycles, price_window,
                   open_orders, loc, results, skipped, slept, attempt0, window0>>

\* Faulty variant of place_SellAccepted: the result pairs each order id with
\* the price of the other leg.
place_SellAccepted_SwapsPrices ==
    /\ pc = "sell"
    /\ calls' = Append(calls, Call("create_order", "sell", loc.sell_price, TRUE))
    /\ nSell' = nSell + 1
    /\ loc' = [loc EXCEPT !.sell_id = nBuy + nSell + 1]
    /\ results' = <<[buy |-> [order_id |-> loc.buy_id, price |-> loc.sell_price],
                     sell |-> [order_id |-> nBuy + nSell + 1,
                               price |-> loc.buy_price]]>>
    /\ pc' = "placed"
    /\ UNCHANGED <<naked, gates, run, market, moves, nBuy, attempt, cycles, price_window,
                   open_orders, exc, skipped, slept, attempt0, window0>>

\* lines 101-110: the sell order is accepted and the result is returned
place_SellAccepted ==
    /\ pc = "sell"
    /\ calls' = Append(calls, Call("create_order", "sell", loc.sell_price, TRUE))
    /\ nSell' = nSell + 1
    /\ loc' = [loc EXCEPT !.sell_id = nBuy + nSell + 1]
    /\ results' = <<[buy |-> [order_id |-> loc.buy_id, price |-> loc.buy_price],
                     sell |-> [order_id |-> nBuy + nSell + 1,
                               price |-> loc.sell_price]]>>
    /\ pc' = "placed"
    /\ UNCHANGED <<naked, gates, run, market, moves, nBuy, attempt, cycles, price_window,
                   open_orders, exc, skipped, slept, attempt0, window0>>

\* Faulty variant of place_SellRaises: the failure of the sell order is swallowed
\* and a result with the buy leg alone is returned.
place_SellRaises_PartialResult ==
    /\ pc = "sell"
    /\ MayFail
    /\ calls' = Append(calls, Call("create_order", "sell", loc.sell_price, FALSE))
    /\ results' = <<[buy |-> [order_id |-> loc.buy_id, price |-> loc.buy_price],
                     sell |-> [order_id |-> 0, price |-> loc.sell_price]]>>
    /\ pc' = "placed"
    /\ naked' = naked + 1
    /\ UNCHANGED <<gates, run, market, moves, nBuy, nSell, attempt, cycles, price_window,
                   open_orders, loc, exc, skipped, slept, attempt0, window0>>

\* lines 101-105: create_order raises for the sell order
place_SellRaises ==
    /\ pc = "sell"
    /\ MayFail
    /\ calls' = Append(calls, Call("create_order", "sell", loc.sell_price, FALSE))
    /\ exc' = "create_order sell"
    /\ pc' = "except"
    /\ naked' = naked + 1
    /\ UNCHANGED <<gates, run, market, moves, nBuy, nSell, attempt, cycles, price_window,
                   open_orders, loc, results, skipped, slept, attempt0, window0>>

Next ==
    \/ main_LoopEnter
    \/ main_LoopExit
    \/ get_open_orders_Raises
    \/ main_OpenOrdersSkip
    \/ main_NoOpenOrders
    \/ main_Except
    \/ main_Placed
    \/ main_Skipped
    \/ fetch_order_book_Raises
    \/ place_FetchOrderBook
    \/ place_SpreadFilter
    \/ place_ObiFilter
    \/ place_VolatilityFilter
    \/ place_Prices
    \/ place_BuyAccepted
    \/ place_BuyRaises
    \/ place_SellAccepted
    \/ place_SellRaises

Spec == Init /\ [][Next]_vars

\* A run in which the environment fails in a bounded number of cycles.  main
\* is one thread and every call it makes returns or raises, so a step that can
\* be taken is taken.
InitLive == Start({LiveRun})
SpecLive == InitLive /\ [][Next]_vars /\ WF_vars(Next)

\* compute_orderbook_imbalance on generated books
InitObi == Start({ObiRun})
SpecObi == InitObi /\ [][Next]_vars

(***************************************************************************)
(* Vocabulary of the properties.                                           *)
(***************************************************************************)
\* the body of the loop has run to its end at least once
CycleOver == pc \in {"loop", "done"} /\ cycles > 0

IsOrder(c) == c.api = "create_order"

\* create_order calls of this cycle, in order
Orders == SelectSeq(calls, IsOrder)

Accepted(side) ==
    \E i \in 1..Len(calls) : IsOrder(calls[i]) /\ calls[i].side = side /\ calls[i].ok

Exceptions ==
    {"fetch_open_orders", "fetch_order_book", "RuntimeError", "ValueError",
     "create_order buy", "create_order sell"}

(***************************************************************************)
(* C1.  In a cycle in which fetch_open_orders returned a non-empty list no *)
(* order, buy or sell, is submitted, and attempt keeps the value it had    *)
(* when the cycle started.                                                 *)
(***************************************************************************)
C1_OpenOrdersBlockCycle ==
    open_orders > 0 => (Orders = <<>> /\ attempt = attempt0 /\ results = <<>>)

\* such a cycle has ended, after an attempt had already been consumed
C1_Witness == CycleOver /\ open_orders > 0 /\ attempt0 = 1

(***************************************************************************)
(* C2.  attempt never decreases; within a cycle it grows by at most one,   *)
(* and a finished cycle has grown it by exactly one if and only if both    *)
(* the buy and the sell submission of that cycle were accepted.            *)
(***************************************************************************)
C2_AttemptCountsPlacements ==
    /\ [](/\ attempt \in {attempt0, attempt0 + 1}
          /\ CycleOver => (attempt = attempt0 + 1 <=> (Accepted("buy") /\ Accepted("sell"))))
    /\ [][attempt' >= attempt /\ attempt0' >= attempt0]_vars

\* the second placement of a run has been counted
C2_Witness ==
    CycleOver /\ attempt0 = 1 /\ attempt = 2 /\ Accepted("buy") /\ Accepted("sell")

(***************************************************************************)
(* C3.  An exception raised by fetch_open_orders, by fetch_order_book, by  *)
(* the empty-side check, by the price check or by either create_order is   *)
(* caught in the cycle: main does not return, attempt is what it was when  *)
(* the cycle started and still below MAX_ATTEMPTS, and the next step after *)
(* the handler is a new cycle that starts at polling.                      *)
(***************************************************************************)
C3_ExceptionsAreCaught ==
    /\ [](exc # "none" =>
            /\ exc \in Exceptions
            /\ pc \in {"except", "loop"}
            /\ attempt = attempt0
            /\ attempt < run.MAX_ATTEMPTS)
    /\ [][(exc # "none" /\ pc = "loop") => (pc' = "poll" /\ attempt' = attempt)]_vars

\* the handler has run for a failed sell after one completed placement
C3_Witness == pc = "loop" /\ exc = "create_order sell" /\ slept = <<ERROR_SLEEP>> /\ attempt = 1

(***************************************************************************)
(* C4.  A sell order is submitted only after the buy order of the same     *)
(* cycle was accepted; when the buy submission raises, the cycle submits   *)
(* no sell order.                                                          *)
(***************************************************************************)
C4_NoSellAfterFailedBuy ==
    /\ \A i \in 1..Len(calls) :
         (IsOrder(calls[i]) /\ calls[i].side = "sell") =>
             \E j \in 1..(i - 1) :
                 IsOrder(calls[j]) /\ calls[j].side = "buy" /\ calls[j].ok
    /\ exc = "create_order buy" => Len(Orders) = 1

\* a cycle whose buy submission raised has ended
C4_Witness ==
    /\ CycleOver
    /\ exc = "create_order buy"
    /\ Len(Orders) = 1 /\ Orders[1].side = "buy" /\ ~Orders[1].ok

(***************************************************************************)
(* C5.  When the buy order was accepted and the sell submission raised,    *)
(* the cycle issues no further API call (nothing cancels the buy order,    *)
(* which the venue keeps), returns no result and leaves attempt as it      *)
(* was; a result exists only when both submissions returned an identifier, *)
(* and it carries both.                                                    *)
(***************************************************************************)
C5_NakedBuyIsLeft ==
    /\ exc = "create_order sell" =>
         /\ Accepted("buy")
         /\ Len(Orders) = 2
         /\ IsOrder(calls[Len(calls)]) /\ calls[Len(calls)].side = "sell"
         /\ results = <<>>
         /\ attempt = attempt0
         /\ nBuy > nSell
    /\ results # <<>> =>
         /\ Accepted("buy") /\ Accepted("sell")
         /\ results[1].buy.order_id > 0
         /\ results[1].sell.order_id > 0
         /\ results[1].buy.order_id # results[1].sell.order_id

\* the handler has run for a failed sell: one more buy than sell is accepted
C5_Witness ==
    CycleOver /\ exc = "create_order sell" /\ Accepted("buy") /\ nBuy = nSell + 1

(***************************************************************************)
(* C6.  main returns only with attempt = MAX_ATTEMPTS, straight after a    *)
(* cycle that placed both orders (never after a skip or an error); a cycle *)
(* starts only while attempt < MAX_ATTEMPTS, and once attempt has reached  *)
(* MAX_ATTEMPTS the only step of the loop is the exit.                     *)
(***************************************************************************)
C6_ExitOnlyOnExhaustion ==
    /\ [](/\ attempt <= run.MAX_ATTEMPTS
          /\ pc = "done" =>
               /\ attempt = run.MAX_ATTEMPTS
               /\ exc = "none" /\ skipped = "none" /\ open_orders = 0
               /\ results # <<>>
          /\ pc \notin {"loop", "done"} => attempt0 < run.MAX_ATTEMPTS)
    /\ [][(pc = "loop" /\ attempt = run.MAX_ATTEMPTS) => pc' = "done"]_vars
    /\ [][pc' = "done" => attempt = run.MAX_ATTEMPTS]_vars

\* main has returned after a run in which one cycle consumed no attempt
C6_Witness == pc = "done" /\ cycles > attempt /\ attempt = run.MAX_ATTEMPTS

(***************************************************************************)
(* C7.  The filters run in the order spread, imbalance, volatility and     *)
(* stop at the first that fails.  The cycle is skipped for the spread when *)
(* MIN_SPREAD <= spread <= MAX_SPREAD fails; else for the imbalance when   *)
(* 0.5 - tol <= OBI <= 0.5 + tol fails; else for the volatility when the   *)
(* window holds at least MIN_SAMPLES prices and the volatility is above    *)
(* MAX_VOLATILITY; else it proceeds.  All bounds are inclusive.            *)
(***************************************************************************)
C7_FilterDone == skipped # "none" \/ Len(gates) = 3

C7_Decision ==
    LET b == loc.orderbook
        sp == b.asks[1].price - b.bids[1].price
        o == compute_orderbook_imbalance(b.bids, b.asks, OBI_DEPTH)
        lo == OBI_TOLERANCE[2] - 2 * OBI_TOLERANCE[1]
        hi == OBI_TOLERANCE[2] + 2 * OBI_TOLERANCE[1]
        den == 2 * OBI_TOLERANCE[2]
    IN  IF ~(MIN_SPREAD <= sp /\ sp <= MAX_SPREAD) THEN "spread"
        ELSE IF ~(lo * o[2] <= den * o[1] /\ den * o[1] <= hi * o[2]) THEN "obi"
        ELSE IF Len(price_window) >= MIN_SAMPLES
                /\ VolAbove(price_window, MAX_VOLATILITY) THEN "vol"
        ELSE "none"

C7_FiltersInOrder ==
    /\ \E n \in 0..3 : gates = SubSeq(<<"spread", "obi", "vol">>, 1, n)
    /\ C7_FilterDone =>
         /\ skipped = C7_Decision
         /\ gates = CASE skipped = "spread" -> <<"spread">>
                      [] skipped = "obi" -> <<"spread", "obi">>
                      [] OTHER -> <<"spread", "obi", "vol">>
    /\ pc \in {"price", "buy", "sell", "placed"} => (C7_FilterDone /\ skipped = "none")

\* a book that fails the spread filter and would fail the imbalance filter too
C7_Witness ==
    /\ skipped = "spread"
    /\ gates = <<"spread">>
    /\ ObiOutOfRange(compute_orderbook_imbalance(loc.orderbook.bids,
                                                 loc.orderbook.asks, OBI_DEPTH),
                     OBI_TOLERANCE)

(***************************************************************************)
(* C8.  A cycle is skipped for the volatility only when the window held at *)
(* least MIN_SAMPLES prices when the filter was evaluated, whatever the    *)
(* prices are.                                                             *)
(***************************************************************************)
C8_NoVetoBelowMinSamples == skipped = "vol" => Len(price_window) >= MIN_SAMPLES

\* the filter let a cycle pass on fewer samples whose volatility is above the
\* ceiling
C8_Witness ==
    /\ Len(gates) = 3
    /\ skipped = "none"
    /\ Len(price_window) < MIN_SAMPLES
    /\ VolAbove(price_window, MAX_VOLATILITY)

(***************************************************************************)
(* C9.  In every cycle that fetched a usable book the mid-price of that    *)
(* book is appended to the window before the filters are evaluated, so     *)
(* whatever the spread or the imbalance filter decides.                    *)
(***************************************************************************)
C9_AppendBeforeFilters ==
    gates # <<>> =>
        /\ price_window # <<>>
        /\ price_window[Len(price_window)] = loc.mid
        /\ Len(price_window) = Min(Len(window0) + 1, WINDOW_MAXLEN)

(***************************************************************************)
(* C10.  The window never holds more than WINDOW_MAXLEN prices.  An append *)
(* puts the new mid-price last and keeps the earlier prices in their       *)
(* order; on a full window it removes exactly the oldest one.              *)
(***************************************************************************)
C10_WindowIsBoundedFifo ==
    /\ Len(price_window) <= WINDOW_MAXLEN
    /\ Len(gates) = 3 =>
         LET k == IF Len(window0) = WINDOW_MAXLEN THEN 1 ELSE 0
         IN  /\ Len(price_window) = Len(window0) + 1 - k
             /\ price_window[Len(price_window)] = loc.mid
             /\ \A i \in 1..(Len(price_window) - 1) : price_window[i] = window0[i + k]

\* an append to a full window whose oldest price differs from the next one
C10_Witness ==
    /\ Len(gates) = 3
    /\ Len(window0) = WINDOW_MAXLEN
    /\ window0[1] # window0[2]
    /\ price_window[1] = window0[2]

\* a cycle has been skipped for the volatility
VolatilityVetoReached == skipped = "vol"

\* the volatility filter let a cycle pass on a window of MIN_SAMPLES or more
\* prices that are not all equal
VolatilityPassReached ==
    /\ Len(gates) = 3 /\ skipped = "none"
    /\ Len(price_window) >= MIN_SAMPLES
    /\ \E i \in 1..Len(price_window) : price_window[i] # price_window[1]

(***************************************************************************)
(* C11.  Once the three filters have let a cycle through, buy_price is the *)
(* best ask minus OFFSET and sell_price the best bid plus OFFSET; the      *)
(* cycle fails with ValueError exactly when one of the two is zero or      *)
(* negative, and then it submits no order.  Every order ever submitted     *)
(* carries a strictly positive price.                                      *)
(***************************************************************************)
\* lines 89-93 have been executed in this cycle
C11_Priced == Len(gates) = 3 /\ skipped = "none" /\ pc # "price"

C11_PricesAreOffsetAndPositive ==
    /\ C11_Priced =>
          /\ loc.buy_price = loc.orderbook.asks[1].price - run.OFFSET
          /\ loc.sell_price = loc.orderbook.bids[1].price + run.OFFSET
          /\ exc = "ValueError" <=> (loc.buy_price <= 0 \/ loc.sell_price <= 0)
    /\ exc = "ValueError" => (C11_Priced /\ Orders = <<>> /\ results = <<>>)
    /\ \A i \in 1..Len(Orders) : Orders[i].price > 0

\* OFFSET equals the best ask: the buy price is exactly zero and the cycle has
\* ended in the handler
C11_Witness ==
    /\ CycleOver /\ exc = "ValueError"
    /\ run.OFFSET = loc.orderbook.asks[1].price
    /\ loc.buy_price = 0 /\ loc.sell_price > 0

\* a negative OFFSET made the sell price fail while the buy price was positive
C11_SellSideReached == exc = "ValueError" /\ loc.buy_price > 0 /\ loc.sell_price <= 0

(***************************************************************************)
(* C12.  A cycle that passes the filters with two positive prices and has  *)
(* both submissions accepted submits exactly two orders, the buy at        *)
(* best ask - OFFSET first and the sell at best bid + OFFSET second, both  *)
(* for SYMBOL and QUANTITY, and returns a result that pairs the id of the  *)
(* buy order with the buy price and the id of the sell order with the sell *)
(* price.                                                                  *)
(***************************************************************************)
C12_BracketIsBuyThenSell ==
    /\ (Accepted("buy") /\ Accepted("sell")) <=> results # <<>>
    /\ results # <<>> =>
          /\ Len(results) = 1
          /\ Len(Orders) = 2
          /\ Orders[1].side = "buy" /\ Orders[2].side = "sell"
          /\ Orders[1].ok /\ Orders[2].ok
          /\ \A i \in 1..2 : Orders[i].symbol = SYMBOL /\ Orders[i].amount = QUANTITY
          /\ Orders[1].price = loc.orderbook.asks[1].price - run.OFFSET
          /\ Orders[2].price = loc.orderbook.bids[1].price + run.OFFSET
          /\ results[1].buy = [order_id |-> loc.buy_id, price |-> Orders[1].price]
          /\ results[1].sell = [order_id |-> loc.sell_id, price |-> Orders[2].price]
          /\ loc.buy_id < loc.sell_id

\* bid 100.00, ask 101.00, offset 0.30: buy at 100.70, sell at 100.30
C12_Witness ==
    /\ CycleOver /\ results # <<>>
    /\ loc.best_bid = 2000 /\ loc.best_ask = 2020 /\ run.OFFSET = OFFSET_SMALL
    /\ results[1].buy.price = 2014 /\ results[1].sell.price = 2006

(***************************************************************************)
(* C13.  The imbalance is computed from at most the first 5 levels of each *)
(* side: it is the literal 0.5 when the bid and ask sizes of those levels  *)
(* sum to zero, and otherwise bid volume / (bid volume + ask volume), a    *)
(* number between 0 and 1.                                                 *)
(***************************************************************************)
\* the sizes of the first k levels of a side, summed
RECURSIVE C13_Volume(_, _)
C13_Volume(side, k) == IF k = 0 THEN 0 ELSE side[k].size + C13_Volume(side, k - 1)

C13_Depth(side) == IF Len(side) < 5 THEN Len(side) ELSE 5

C13_ImbalanceOfTopFive ==
    Len(gates) >= 2 =>
        LET bidVolume == C13_Volume(loc.orderbook.bids, C13_Depth(loc.orderbook.bids))
            askVolume == C13_Volume(loc.orderbook.asks, C13_Depth(loc.orderbook.asks))
        IN  /\ (bidVolume = 0 /\ askVolume = 0) => loc.obi = <<1, 2>>
            /\ (bidVolume > 0 \/ askVolume > 0) => loc.obi = <<bidVolume, bidVolume + askVolume>>
            /\ 0 <= loc.obi[1] /\ loc.obi[1] <= loc.obi[2] /\ loc.obi[2] > 0

\* six levels on each side, every one with size: the sixth is left out
C13_Witness ==
    /\ Len(gates) >= 2
    /\ Len(loc.orderbook.bids) = 6 /\ Len(loc.orderbook.asks) = 6
    /\ \A i \in 1..6 : loc.orderbook.bids[i].size = 1 /\ loc.orderbook.asks[i].size = 3
    /\ loc.obi = <<5, 20>>

\* no size in the first five levels of either side, size in the sixth
C13_ZeroVolumeReached ==
    /\ Len(gates) >= 2 /\ loc.obi = <<1, 2>>
    /\ Len(loc.orderbook.bids) = 6 /\ loc.orderbook.bids[6].size = 1

(***************************************************************************)
(* C14.  A fetched book in which one side is missing or empty makes the    *)
(* cycle fail with the market-data error (RuntimeError) before any filter: *)
(* no best bid or ask is read, the window keeps its content, no order is   *)
(* submitted, and the error ends in the handler of the loop with attempt   *)
(* as it was and the loop still running.                                   *)
(***************************************************************************)
\* api.fetch_order_book has returned in this cycle
C14_Fetched ==
    \E i \in 1..Len(calls) : calls[i].api = "fetch_order_book" /\ calls[i].ok

C14_SideMissing ==
    \/ ~loc.orderbook.hasBids \/ loc.orderbook.bids = <<>>
    \/ ~loc.orderbook.hasAsks \/ loc.orderbook.asks = <<>>

C14_EmptySideIsAnError ==
    /\ C14_Fetched => (C14_SideMissing <=> exc = "RuntimeError")
    /\ exc = "RuntimeError" =>
          /\ C14_Fetched
          /\ gates = <<>> /\ skipped = "none"
          /\ loc.best_bid = NoLoc.best_bid /\ loc.best_ask = NoLoc.best_ask
          /\ loc.mid = NoLoc.mid /\ loc.obi = NoLoc.obi
          /\ price_window = window0
          /\ Orders = <<>> /\ results = <<>>
          /\ attempt = attempt0 /\ attempt < run.MAX_ATTEMPTS
          /\ pc \in {"except", "loop"}
          /\ pc = "loop" => slept = <<ERROR_SLEEP>>

\* the bids are missing from the book, after an earlier cycle had placed a
\* bracket and recorded a price; the handler has run
C14_Witness ==
    /\ CycleOver /\ exc = "RuntimeError"
    /\ ~loc.orderbook.hasBids
    /\ attempt0 = 1 /\ window0 # <<>>

\* the same for a book whose asks are an empty list
C14_EmptyAsksReached ==
    /\ CycleOver /\ exc = "RuntimeError"
    /\ loc.orderbook.hasAsks /\ loc.orderbook.asks = <<>> /\ loc.orderbook.bids # <<>>

(***************************************************************************)
(* C15.  Every cycle ends with exactly one sleep and there is no sleep     *)
(* anywhere else: WAIT_SECONDS when open orders made the cycle skip and    *)
(* when a bracket was placed, 5 seconds when a filter made the cycle skip, *)
(* 10 seconds when an exception was caught.                                *)
(***************************************************************************)
\* how the cycle ended
C15_Outcome ==
    CASE open_orders > 0 -> "open orders"
      [] results # <<>> -> "placed"
      [] skipped # "none" -> "filtered"
      [] exc # "none" -> "exception"
      [] OTHER -> "none"

C15_OneSleepPerCycle ==
    /\ ~CycleOver => slept = <<>>
    /\ CycleOver =>
          /\ Len(slept) = 1
          /\ C15_Outcome # "none"
          /\ C15_Outcome = "open orders" => slept[1] = WAIT_SECONDS
          /\ C15_Outcome = "placed" => slept[1] = WAIT_SECONDS
          /\ C15_Outcome = "filtered" => slept[1] = 5
          /\ C15_Outcome = "exception" => slept[1] = 10
          /\ (IF open_orders > 0 THEN 1 ELSE 0) + (IF results # <<>> THEN 1 ELSE 0)
               + (IF skipped # "none" THEN 1 ELSE 0) + (IF exc # "none" THEN 1 ELSE 0) = 1

\* the second cycle of a run placed the second bracket and slept WAIT_SECONDS
C15_Witness ==
    CycleOver /\ results # <<>> /\ attempt = 2 /\ cycles = 2 /\ slept = <<WAIT_SECONDS>>

(***************************************************************************)
(* C16.  The volatility filter on a window of 10 or more prices.           *)
(***************************************************************************)
\* the k-th log-return of the window, ln(p[k+1] / p[k])
C16_Return(k) == Ln(price_window[k + 1]) - Ln(price_window[k])

\* sum of the first k log-returns, and of their squares
RECURSIVE C16_Sum(_)
C16_Sum(k) == IF k = 0 THEN 0 ELSE C16_Return(k) + C16_Sum(k - 1)

RECURSIVE C16_SumSq(_)
C16_SumSq(k) == IF k = 0 THEN 0 ELSE C16_Return(k) * C16_Return(k) + C16_SumSq(k - 1)

\* n * (sum of squared deviations from the mean) of all n log-returns
C16_Scatter ==
    LET n == Len(price_window) - 1 IN n * C16_SumSq(n) - C16_Sum(n) * C16_Sum(n)

\* sqrt(Scatter / (n * (n - 1))) > MAX_VOLATILITY, squared
C16_SampleStdAbove ==
    LET n == Len(price_window) - 1
    IN  C16_Scatter > MAX_VOLATILITY * MAX_VOLATILITY * n * (n - 1)

\* sqrt(Scatter / (n * n)) > MAX_VOLATILITY, squared
C16_PopulationStdAbove ==
    LET n == Len(price_window) - 1
    IN  C16_Scatter > MAX_VOLATILITY * MAX_VOLATILITY * n * n

\* C16 as stated: once the window holds at least 10 prices, the filter vetoes
\* exactly when the sample standard deviation (divisor n - 1) of the
\* log-returns over the whole window is strictly greater than MAX_VOLATILITY.
C16_SampleStdDevDecides ==
    (Len(gates) = 3 /\ Len(price_window) >= 10) =>
        (skipped = "vol" <=> C16_SampleStdAbove)

\* C16 amended: once the window holds at least 10 prices, the filter vetoes
\* exactly when the population standard deviation (divisor n) of the
\* log-returns over the whole window, not the last 10 prices only, is
\* strictly greater than MAX_VOLATILITY.
C16_PopulationStdDevDecides ==
    (Len(gates) = 3 /\ Len(price_window) >= 10) =>
        (skipped = "vol" <=> C16_PopulationStdAbove)

\* a veto on a window whose last 10 prices are all equal: the price move that
\* causes it is older
C16_Witness ==
    /\ skipped = "vol"
    /\ Len(price_window) >= 12
    /\ \A i \in (Len(price_window) - 9)..Len(price_window) :
          price_window[i] = price_window[Len(price_window)]

\* the two estimates disagree: the cycle passed, the sample estimate is above
C16_EstimatesDifferReached ==
    Len(gates) = 3 /\ skipped = "none" /\ Len(price_window) >= 10 /\ C16_SampleStdAbove

(***************************************************************************)
(* C17.  The window changes only in a cycle whose book passed the spread   *)
(* filter and the OBI filter: that cycle appends exactly one mid-price,    *)
(* which stays in the window whether the cycle then is vetoed for          *)
(* volatility, fails the price check or fails to submit the buy or the     *)
(* sell order.  In every other cycle the window keeps its content.         *)
(***************************************************************************)
\* the book of this cycle was fetched and passed the spread and OBI filters
C17_PassedTwoGates ==
    /\ Len(gates) >= 2
    /\ skipped \notin {"spread", "obi"}
    /\ pc # "vol"

C17_WindowChangesAfterTwoGates ==
    LET top == loc.orderbook
        mid == (top.bids[1].price + top.asks[1].price) \div 2
    IN  /\ C17_PassedTwoGates =>
              /\ MIN_SPREAD <= loc.spread /\ loc.spread <= MAX_SPREAD
              /\ ~ObiOutOfRange(loc.obi, OBI_TOLERANCE)
              /\ Len(window0) < WINDOW_MAXLEN => price_window = window0 \o <<mid>>
              /\ Len(window0) = WINDOW_MAXLEN => price_window = Tail(window0) \o <<mid>>
        /\ ~C17_PassedTwoGates => price_window = window0

\* the sell order failed after the buy order was accepted, the handler has
\* run, and the mid-price of the cycle is still the newest entry
C17_Witness ==
    /\ CycleOver /\ exc = "create_order sell"
    /\ window0 # <<>>
    /\ price_window = Append(window0, loc.mid)

\* the same after a volatility veto and after a refused price
C17_KeptAfterVetoReached ==
    CycleOver /\ skipped = "vol" /\ Len(price_window) = Len(window0) + 1

C17_KeptAfterValueErrorReached ==
    CycleOver /\ exc = "ValueError" /\ Len(price_window) = Len(window0) + 1

(***************************************************************************)
(* C18.  Whenever the loop condition is about to be tested, attempt is     *)
(* between 0 and MAX_ATTEMPTS, the number of accepted sell orders equals   *)
(* attempt, and the number of accepted buy orders is attempt plus the      *)
(* number of cycles whose buy order was accepted and whose sell order      *)
(* failed; when main returns, exactly MAX_ATTEMPTS brackets are complete.  *)
(***************************************************************************)
C18_AttemptCountsBrackets ==
    /\ pc \in {"loop", "done"} =>
          /\ 0 <= attempt /\ attempt <= run.MAX_ATTEMPTS
          /\ nSell = attempt
          /\ nBuy >= attempt
          /\ nBuy - attempt = naked
    /\ pc = "done" => (attempt = run.MAX_ATTEMPTS /\ nSell = run.MAX_ATTEMPTS)

\* main has returned after a run in which one buy order was left without its
\* sell order
C18_Witness ==
    pc = "done" /\ naked = 1 /\ nBuy = run.MAX_ATTEMPTS + 1 /\ nSell = run.MAX_ATTEMPTS

(***************************************************************************)
(* C19.  If from some cycle on every cycle finds no open orders, gets a    *)
(* book that passes the three filters and gives positive prices, and has   *)
(* both orders accepted, main eventually returns, and it does so after     *)
(* exactly MAX_ATTEMPTS - attempt further cycles.  In a run whose          *)
(* environment fails in finitely many cycles only, main returns.           *)
(***************************************************************************)
\* nothing has kept the current cycle from placing so far
C19_GoodCycle == open_orders <= 0 /\ skipped = "none" /\ exc = "none"

C19_GoodCyclesTerminate ==
    /\ <>(pc = "done")
    /\ \A a \in 0..LiveAttempts, c \in 0..(LiveAttempts + LiveFaults) :
          []((pc = "loop" /\ attempt = a /\ cycles = c /\ [](cycles > c => C19_GoodCycle))
                => <>(pc = "done" /\ cycles = c + (LiveAttempts - a)))

\* main has returned after LiveFaults cycles that placed nothing and
\* LiveAttempts cycles that placed a bracket each, the last ones in a row
C19_Witness ==
    /\ pc = "done"
    /\ run = LiveRun
    /\ attempt = LiveAttempts
    /\ cycles = LiveAttempts + LiveFaults
    /\ naked = 1
====
